---------------------------- MODULE Spec2Model ----------------------------
(***************************************************************************)
(* Model of the live anomaly detector of src/active_testing.py: the four   *)
(* probes, the assembly of the 17-field feature vector (merge, default,    *)
(* clip), the classifier call, the rule engine categorize_anomaly and the  *)
(* upload, as one sequential loop; of the serial bridge of                 *)
(* src/serial_data.py; and of the AI request processing and the health     *)
(* dashboard of src/server.py.  The three scripts are three processes;     *)
(* each specification below follows one of them and leaves the variables   *)
(* of the other two as they are.                                           *)
(*                                                                         *)
(* Numbers are integers (latencies in whole ms, temperatures in whole      *)
(* degrees); a Python value that may be None is a sequence of length at    *)
(* most one: <<>> is None and <<v>> is the number v.                       *)
(***************************************************************************)
EXTENDS Integers, Sequences, FiniteSets, TLC

VARIABLES
    pc,            \* the statement of the module the process is at
    iter,          \* number of completed passes of `while True`
    ping_output,   \* what the ping subprocess produced in this pass
    serial_poll,   \* what the serial port delivered in this pass
    ping,          \* (ping_avg, loss, jitter) of line 147
    sys_data,      \* line 148
    arduino_data,  \* line 149
    wifi_strength, \* line 150
    row,           \* lines 153-182
    is_anomaly,    \* line 190
    category,      \* line 193
    firebase_data, \* line 196
    sink,          \* number of documents stored in network_anomalies
    handed,        \* number of add() calls made in this pass
    stages,        \* the stages this pass went through, in order
    error,         \* the call whose exception ended the process, "" if none
    resources,     \* the objects of lines 19-62 the process holds
    \* src/serial_data.py
    bridge_pc,     \* the statement the bridge is at
    acm0_rx,       \* lines waiting at /dev/ttyACM0, oldest first
    acm1_rx,       \* lines waiting at /dev/ttyACM1, oldest first
    acm0_tx,       \* what was written to /dev/ttyACM0, in order
    acm1_tx,       \* what was written to /dev/ttyACM1, in order
    read_lines,    \* what readline() returned on ACM0, in order
    printed,       \* the replies of ACM1 that were printed, in order
    \* src/server.py, get_network_health_dashboard
    current,       \* the metrics of lines 466-475
    health_score,  \* lines 478-519
    status,        \* lines 521-532
    tool_reply,    \* what call_tool returned
    \* src/server.py, AI requests
    ai_requests,   \* the documents of collection ai_requests
    ai_responses,  \* per request_id, the documents of ai_responses
    changes,       \* ADDED changes delivered to on_snapshot, not yet handled
    pending,       \* the stream of process_pending_requests, not yet handled
    notified,      \* the requests whose ADDED change was delivered
    wpc,           \* per thread, the statement of process_ai_request it is at
    run,           \* per thread, the call of process_ai_request it is in
    runs,          \* per request_id, the calls of process_ai_request begun
    backend_calls, \* per request_id, the calls of client.messages.create
    tool_calls     \* number of process_pending_requests calls made

detectorVars ==
    <<pc, iter, ping_output, serial_poll, ping, sys_data, arduino_data,
      wifi_strength, row, is_anomaly, category, firebase_data, sink,
      handed, stages, error, resources>>

bridgeVars ==
    <<bridge_pc, acm0_rx, acm1_rx, acm0_tx, acm1_tx, read_lines, printed>>

dashboardVars == <<current, health_score, status, tool_reply>>

requestVars ==
    <<ai_requests, ai_responses, changes, pending, notified, wpc, run, runs,
      backend_calls, tool_calls>>

vars == <<detectorVars, bridgeVars, dashboardVars, requestVars>>

\* The variables of the two scripts other than the detector
others == <<bridgeVars, dashboardVars, requestVars>>

\* Number of passes of the loop the model follows.
MaxIter == 2

--------------------------------------------------------------------------
\* Python values

None == <<>>
Some(v) == <<v>>
IsNone(x) == x = <<>>
Val(x) == x[1]

Range(s) == {s[i] : i \in DOMAIN s}

\* dict.update: the keys of d are added to, or replace, those of base
update(base, d) ==
    [k \in (DOMAIN base) \cup (DOMAIN d) |->
        IF k \in DOMAIN d THEN d[k] ELSE base[k]]

EmptyDict == [k \in {} |-> None]

--------------------------------------------------------------------------
\* The scripts before they are started

Requests == {"r1", "r2"}
Threads == {"watcher", "tool"}

NoRun == [request |-> "", called |-> FALSE, wrote |-> {}, set |-> ""]
NoReply == [kind |-> "none"]

BridgeOff ==
    /\ bridge_pc = "off"
    /\ acm0_rx = <<>>
    /\ acm1_rx = <<>>
    /\ acm0_tx = <<>>
    /\ acm1_tx = <<>>
    /\ read_lines = <<>>
    /\ printed = <<>>

DashboardOff ==
    /\ current = EmptyDict
    /\ health_score = 100
    /\ status = ""
    /\ tool_reply = NoReply

RequestsOff ==
    /\ ai_requests = [r \in Requests |-> [status |-> "absent",
                                           expires_at |-> "none",
                                           prompt |-> FALSE]]
    /\ ai_responses = [r \in Requests |-> [success |-> 0, failure |-> 0]]
    /\ changes = <<>>
    /\ pending = <<>>
    /\ notified = {}
    /\ wpc = [t \in Threads |-> "idle"]
    /\ run = [t \in Threads |-> NoRun]
    /\ runs = [r \in Requests |-> 0]
    /\ backend_calls = [r \in Requests |-> 0]
    /\ tool_calls = 0

DetectorOff ==
    /\ pc = "off"
    /\ iter = 1
    /\ ping_output = [raised |-> FALSE, latencies |-> <<>>]
    /\ serial_poll = [io_error |-> FALSE, in_waiting |-> 0,
                      decodable |-> TRUE, parts |-> <<>>]
    /\ ping = <<None, None, None>>
    /\ sys_data = EmptyDict
    /\ arduino_data = EmptyDict
    /\ wifi_strength = None
    /\ row = EmptyDict
    /\ is_anomaly = 0
    /\ category = ""
    /\ firebase_data = EmptyDict
    /\ sink = 0
    /\ handed = 0
    /\ stages = <<>>
    /\ error = ""
    /\ resources = {}

OthersOff == BridgeOff /\ DashboardOff /\ RequestsOff

--------------------------------------------------------------------------
\* Configuration

feature_order ==
    << "ambient_temp", "ax", "ay", "az", "bytes_recv", "bytes_sent",
       "cpu_load", "cpu_temp", "gx", "gy", "gz", "humidity",
       "motion_level", "packet_loss", "ping_avg", "ping_jitter",
       "wifi_strength" >>

feature_clip_ranges ==
    [ ambient_temp  |-> <<15, 35>>,
      ax            |-> <<-20000, 20000>>,
      ay            |-> <<-20000, 20000>>,
      az            |-> <<-20000, 20000>>,
      gx            |-> <<-5000, 5000>>,
      gy            |-> <<-5000, 5000>>,
      gz            |-> <<-5000, 5000>>,
      bytes_recv    |-> <<0, 50000000>>,
      bytes_sent    |-> <<0, 50000000>>,
      cpu_load      |-> <<0, 100>>,
      cpu_temp      |-> <<20, 90>>,
      humidity      |-> <<0, 100>>,
      motion_level  |-> <<0, 100>>,
      packet_loss   |-> <<0, 100>>,
      ping_avg      |-> <<0, 2000>>,
      ping_jitter   |-> <<0, 200>>,
      wifi_strength |-> <<-100, 0>> ]

\* ping_test's default count
PingCount == 3

--------------------------------------------------------------------------
\* ping_test (lines 67-77)

RECURSIVE Sum(_)
Sum(s) == IF s = <<>> THEN 0 ELSE Head(s) + Sum(Tail(s))

RECURSIVE SumSq(_)
SumSq(s) == IF s = <<>> THEN 0 ELSE Head(s) * Head(s) + SumSq(Tail(s))

RECURSIVE MaxOf(_)
MaxOf(s) ==
    IF s = <<>> THEN 0
    ELSE LET m == MaxOf(Tail(s)) IN IF Head(s) > m THEN Head(s) ELSE m

\* the integer part of the square root of n, which is at most hi * hi
isqrt(n, hi) == CHOOSE r \in 0..hi : r * r <= n /\ (r + 1) * (r + 1) > n

\* statistics.mean, to whole ms
mean(s) == Sum(s) \div Len(s)

\* statistics.pstdev, to whole ms: the population variance is
\* (n * sum(x^2) - sum(x)^2) / n^2
pstdev(s) ==
    isqrt((Len(s) * SumSq(s) - Sum(s) * Sum(s)) \div (Len(s) * Len(s)),
          MaxOf(s))

\* A run of `ping -c count host`: either check_output raises (non-zero
\* exit status, no such command), or it returns an output whose lines with
\* "time=" carry the latencies listed.
PingError == [raised |-> TRUE, latencies |-> <<>>]
PingReplies(l) == [raised |-> FALSE, latencies |-> l]

\* Mutant of ping_test: the handler forgets the loss of a failed call.
ping_test_forgets_loss(out, count) ==
    IF out.raised \/ out.latencies = <<>>
    THEN <<None, None, None>>
    ELSE << Some(mean(out.latencies)),
            Some(100 - (Len(out.latencies) * 100) \div count),
            Some(pstdev(out.latencies)) >>

\* The value ping_test returns on subprocess outcome `out`.  With no
\* latency, statistics.mean raises StatisticsError inside the try block.
\* The loss is in whole percent, len / count * 100 being cut to a whole
\* number before it is subtracted (34 where Python has 33.33).
ping_test(out, count) ==
    IF out.raised \/ out.latencies = <<>>
    THEN <<None, Some(100), None>>
    ELSE << Some(mean(out.latencies)),
            Some(100 - (Len(out.latencies) * 100) \div count),
            Some(pstdev(out.latencies)) >>

\* Sampled outcomes of the ping subprocess (latencies in ms).
PingOutputs ==
    { PingError,
      PingReplies(<<>>),                \* output without a reply line
      PingReplies(<<36, 40, 44>>),      \* avg 40, jitter 3, loss 0
      PingReplies(<<7, 50, 93>>),       \* avg 50, jitter 35, loss 0
      PingReplies(<<137, 150, 163>>),   \* avg 150, jitter 10, loss 0
      PingReplies(<<103, 110, 117>>),   \* avg 110, jitter 5, loss 0
      PingReplies(<<1, 1, 20>>),        \* avg 7, jitter 8, loss 0
      PingReplies(<<2500>>),            \* avg 2500, jitter 0, loss 67
      PingReplies(<<10, 900>>) }        \* avg 455, jitter 445, loss 34

--------------------------------------------------------------------------
\* get_wifi_strength (lines 79-86)

\* An iwconfig run: check_output raises, or the output has no line with
\* "Signal level", or the first such line carries `level`; `numeric` is
\* whether int() accepts the text after "Signal level=".
IwError == [raised |-> TRUE, found |-> FALSE, numeric |-> FALSE, level |-> 0]
IwNoSignalLine ==
    [raised |-> FALSE, found |-> FALSE, numeric |-> FALSE, level |-> 0]
IwSignal(v) ==
    [raised |-> FALSE, found |-> TRUE, numeric |-> TRUE, level |-> v]
IwGarbled ==
    [raised |-> FALSE, found |-> TRUE, numeric |-> FALSE, level |-> 0]

get_wifi_strength(out) ==
    IF out.raised THEN None               \* except: return None
    ELSE IF ~out.found THEN None          \* falls off the end of the function
    ELSE IF ~out.numeric THEN None        \* int() raises ValueError, caught
    ELSE Some(out.level)

IwOutputs ==
    { IwError, IwNoSignalLine, IwGarbled,
      IwSignal(-50), IwSignal(-80), IwSignal(-120), IwSignal(5) }

--------------------------------------------------------------------------
\* collect_system_metrics (lines 88-99)

\* What psutil reports: `thermal` is the current value of the first
\* cpu_thermal entry, None when sensors_temperatures() has no such entry.
collect_system_metrics(thermal, sent, recv, load) ==
    [ cpu_temp   |-> thermal,
      bytes_sent |-> Some(sent),
      bytes_recv |-> Some(recv),
      cpu_load   |-> Some(load) ]

CpuThermals == {None, Some(10), Some(50), Some(70), Some(95)}
CpuLoads == {1, 7, 9}
NetIoCounters == { <<1000, 2000>>, <<60000000, 70000000>> }

--------------------------------------------------------------------------
\* read_arduino_data (lines 101-124)

\* A line of the sensor link after decode and strip is the sequence of its
\* comma-separated parts, and a part is the sequence of its colon-separated
\* tokens.  A key token is its text; a value token says what its text is:
\* "int" (accepted by int() and float()), "float" (accepted by float()
\* only) or "bad" (accepted by neither), and the number it denotes.
IntText(n) == [text |-> "int", num |-> n]
FloatText(n) == [text |-> "float", num |-> n]
BadText == [text |-> "bad", num |-> 0]

\* key.strip().upper() on the keys the sampled lines use
StripUpper(key) ==
    CASE key = " t" -> "T"
      [] key = " m" -> "M"
      [] key = " x" -> "X"
      [] OTHER -> key

\* key.lower()
Lower(key) ==
    CASE key = "AX" -> "ax" [] key = "AY" -> "ay" [] key = "AZ" -> "az"
      [] key = "GX" -> "gx" [] key = "GY" -> "gy" [] key = "GZ" -> "gz"
      [] OTHER -> key

\* The outcome of the try block: the dict built, or the exception caught.
ParseError == [raised |-> TRUE, data |-> EmptyDict]
Parsed(d) == [raised |-> FALSE, data |-> d]

\* The loop of lines 108-119 over the parts not yet read, `data` being the
\* dict built so far.  A part that does not split in two at ':' raises
\* ValueError at line 109, a value float() or int() rejects at 113-119.
RECURSIVE parse_parts(_, _)
parse_parts(parts, data) ==
    IF parts = <<>> THEN Parsed(data)
    ELSE LET p == Head(parts) IN
      IF Len(p) # 2 THEN ParseError
      ELSE LET key == StripUpper(p[1])
               value == p[2]
           IN
        IF key = "T" THEN
            IF value.text = "bad" THEN ParseError
            ELSE parse_parts(Tail(parts),
                             update(data, "ambient_temp" :> Some(value.num)))
        ELSE IF key = "H" THEN
            IF value.text = "bad" THEN ParseError
            ELSE parse_parts(Tail(parts),
                             update(data, "humidity" :> Some(value.num)))
        ELSE IF key = "M" THEN
            IF value.text # "int" THEN ParseError
            ELSE parse_parts(Tail(parts),
                             update(data, "motion_level" :> Some(value.num)))
        ELSE IF key \in {"AX", "AY", "AZ", "GX", "GY", "GZ"} THEN
            IF value.text # "int" THEN ParseError
            ELSE parse_parts(Tail(parts),
                             update(data, Lower(key) :> Some(value.num)))
        ELSE parse_parts(Tail(parts), data)

\* One poll of the serial port: reading in_waiting or the line may raise
\* SerialException (io_error), the bytes read may not be UTF-8.
SerialDown ==
    [io_error |-> TRUE, in_waiting |-> 0, decodable |-> TRUE, parts |-> <<>>]
NothingWaiting ==
    [io_error |-> FALSE, in_waiting |-> 0, decodable |-> TRUE, parts |-> <<>>]
NotUtf8 ==
    [io_error |-> FALSE, in_waiting |-> 1, decodable |-> FALSE, parts |-> <<>>]
Line(parts) ==
    [io_error |-> FALSE, in_waiting |-> 1, decodable |-> TRUE, parts |-> parts]

\* Whether an exception leaves read_arduino_data: lines 102 and 103 are
\* outside the try block.
read_arduino_raises(poll) ==
    poll.io_error \/ (poll.in_waiting > 0 /\ ~poll.decodable)

\* The value read_arduino_data returns when it returns: None is
\* [none |-> TRUE], a dict d is [none |-> FALSE, data |-> d].
read_arduino_data(poll) ==
    IF poll.in_waiting > 0
    THEN LET r == parse_parts(poll.parts, EmptyDict) IN
         IF r.raised THEN [none |-> TRUE, data |-> EmptyDict]
         ELSE [none |-> FALSE, data |-> r.data]
    ELSE [none |-> TRUE, data |-> EmptyDict]

\* `x or {}` of line 149
or_empty(x) == IF x.none \/ DOMAIN x.data = {} THEN EmptyDict ELSE x.data

FullLine(t, h, m, a, g) ==
    Line(<< <<"T", FloatText(t)>>, <<"H", FloatText(h)>>, <<"M", IntText(m)>>,
            <<"AX", IntText(a)>>, <<"AY", IntText(0 - a)>>, <<"AZ", IntText(a)>>,
            <<"GX", IntText(g)>>, <<"GY", IntText(0 - g)>>, <<"GZ", IntText(g)>> >>)

SerialPolls ==
    { SerialDown, NothingWaiting, NotUtf8,
      FullLine(25, 40, 0, 100, 5),                   \* all within range
      FullLine(25, 40, 3, 100, 5),                   \* motion
      FullLine(40, 120, 150, 30000, 6000),           \* above the ranges
      FullLine(5, -3, -1, 20001, 5001),              \* outside, both sides
      Line(<< <<"T", FloatText(25)>>, <<"H", IntText(40)>> >>),        \* two keys
      Line(<< <<" t", IntText(22)>>, <<" x", IntText(1)>>, <<" m", IntText(2)>> >>),
      Line(<< <<"T", FloatText(25)>>, <<"H">> >>),                \* cut short
      Line(<< <<"T", FloatText(25)>>, <<"M", FloatText(3)>> >>),      \* "M:3.0"
      Line(<< <<"AX", IntText(7)>>, <<"AY", BadText>> >>),            \* "AY:x"
      Line(<< <<"">> >>) }                                    \* empty line

--------------------------------------------------------------------------
\* categorize_anomaly (lines 126-140)

\* 1 / eps, for the default eps = 1e-6 of line 126
EpsInv == 1000000

\* The value of a field of an assembled row
num(r, f) == Val(r[f])

\* jitter_ratio > tenths / 10, where
\*     jitter_ratio = ping_jitter / (ping_avg + eps).
\* For whole ping_jitter and ping_avg the sign of ping_avg + eps is that of
\* ping_avg >= 0, and d = 10 * ping_jitter - tenths * ping_avg is whole, so
\*     10 * ping_jitter > tenths * (ping_avg + eps)
\* is d > tenths * eps, that is d > (tenths \div EpsInv); the products by
\* EpsInv themselves do not fit TLC's 32-bit integers.
jitter_ratio_gt(r, tenths) ==
    LET d == 10 * num(r, "ping_jitter") - tenths * num(r, "ping_avg") IN
    IF num(r, "ping_avg") >= 0
    THEN d > tenths \div EpsInv
    ELSE d < tenths \div EpsInv

network_bad(r) ==
    \/ num(r, "ping_avg") > 100
    \/ 10 * num(r, "packet_loss") > 1          \* packet_loss > 0.1
    \/ num(r, "ping_jitter") > 30

\* Mutant of categorize_anomaly: the first and the second rule exchanged.
categorize_anomaly_motion_first(r) ==
    IF network_bad(r) /\ num(r, "motion_level") > 0
    THEN "Motion-Induced"
    ELSE IF network_bad(r) /\ (num(r, "cpu_temp") > 65 \/ num(r, "cpu_load") > 6)
    THEN "Thermal"
    ELSE IF network_bad(r) /\ (\/ num(r, "wifi_strength") < -70
                               \/ num(r, "ping_jitter") > 40
                               \/ jitter_ratio_gt(r, 4))
    THEN "Weak Signal"
    ELSE IF /\ (num(r, "ping_jitter") > 40 \/ jitter_ratio_gt(r, 6))
            /\ (num(r, "cpu_temp") <= 65 /\ num(r, "wifi_strength") >= -70)
    THEN "Unknown Network Issue"
    ELSE IF network_bad(r) /\ num(r, "cpu_load") > 8
    THEN "System Load"
    ELSE "Normal"

\* Mutant of categorize_anomaly: the first rule without its cpu_load clause.
categorize_anomaly_thermal_by_temp_only(r) ==
    IF network_bad(r) /\ num(r, "cpu_temp") > 65
    THEN "Thermal"
    ELSE IF network_bad(r) /\ num(r, "motion_level") > 0
    THEN "Motion-Induced"
    ELSE IF network_bad(r) /\ (\/ num(r, "wifi_strength") < -70
                               \/ num(r, "ping_jitter") > 40
                               \/ jitter_ratio_gt(r, 4))
    THEN "Weak Signal"
    ELSE IF /\ (num(r, "ping_jitter") > 40 \/ jitter_ratio_gt(r, 6))
            /\ (num(r, "cpu_temp") <= 65 /\ num(r, "wifi_strength") >= -70)
    THEN "Unknown Network Issue"
    ELSE IF network_bad(r) /\ num(r, "cpu_load") > 8
    THEN "System Load"
    ELSE "Normal"

\* Mutant of categorize_anomaly: the third rule without its jitter clauses.
categorize_anomaly_weak_by_wifi_only(r) ==
    IF network_bad(r) /\ (num(r, "cpu_temp") > 65 \/ num(r, "cpu_load") > 6)
    THEN "Thermal"
    ELSE IF network_bad(r) /\ num(r, "motion_level") > 0
    THEN "Motion-Induced"
    ELSE IF network_bad(r) /\ num(r, "wifi_strength") < -70
    THEN "Weak Signal"
    ELSE IF /\ (num(r, "ping_jitter") > 40 \/ jitter_ratio_gt(r, 6))
            /\ (num(r, "cpu_temp") <= 65 /\ num(r, "wifi_strength") >= -70)
    THEN "Unknown Network Issue"
    ELSE IF network_bad(r) /\ num(r, "cpu_load") > 8
    THEN "System Load"
    ELSE "Normal"

\* Mutant of categorize_anomaly: the third and the fourth rule exchanged.
categorize_anomaly_4_before_3(r) ==
    IF network_bad(r) /\ (num(r, "cpu_temp") > 65 \/ num(r, "cpu_load") > 6)
    THEN "Thermal"
    ELSE IF network_bad(r) /\ num(r, "motion_level") > 0
    THEN "Motion-Induced"
    ELSE IF /\ (num(r, "ping_jitter") > 40 \/ jitter_ratio_gt(r, 6))
            /\ (num(r, "cpu_temp") <= 65 /\ num(r, "wifi_strength") >= -70)
    THEN "Unknown Network Issue"
    ELSE IF network_bad(r) /\ (\/ num(r, "wifi_strength") < -70
                               \/ num(r, "ping_jitter") > 40
                               \/ jitter_ratio_gt(r, 4))
    THEN "Weak Signal"
    ELSE IF network_bad(r) /\ num(r, "cpu_load") > 8
    THEN "System Load"
    ELSE "Normal"

categorize_anomaly(r) ==
    IF network_bad(r) /\ (num(r, "cpu_temp") > 65 \/ num(r, "cpu_load") > 6)
    THEN "Thermal"
    ELSE IF network_bad(r) /\ num(r, "motion_level") > 0
    THEN "Motion-Induced"
    ELSE IF network_bad(r) /\ (\/ num(r, "wifi_strength") < -70
                               \/ num(r, "ping_jitter") > 40
                               \/ jitter_ratio_gt(r, 4))
    THEN "Weak Signal"
    ELSE IF /\ (num(r, "ping_jitter") > 40 \/ jitter_ratio_gt(r, 6))
            /\ (num(r, "cpu_temp") <= 65 /\ num(r, "wifi_strength") >= -70)
    THEN "Unknown Network Issue"
    ELSE IF network_bad(r) /\ num(r, "cpu_load") > 8
    THEN "System Load"
    ELSE "Normal"

--------------------------------------------------------------------------
\* The body of `while True` (lines 145-207)

\* Lines 153-174: the dict of 17 None, updated with the three sources.
merge_row(sys, ard, png, wifi) ==
    update(update(update([f \in Range(feature_order) |-> None], sys), ard),
           [ packet_loss   |-> png[2],
             ping_avg      |-> png[1],
             ping_jitter   |-> png[3],
             wifi_strength |-> wifi ])

min(a, b) == IF a < b THEN a ELSE b
max(a, b) == IF a > b THEN a ELSE b

\* Mutant of clip_features: the default is applied first and then clipped
\* like a measured value.
clip_features_default_then_clip(r) ==
    [ f \in DOMAIN r |->
        IF f \in Range(feature_order)
        THEN LET v == IF IsNone(r[f]) THEN 0 ELSE Val(r[f]) IN
             Some(min(max(v, feature_clip_ranges[f][1]),
                      feature_clip_ranges[f][2]))
        ELSE r[f] ]

\* Mutant of clip_features: a None is left as it is.
clip_features_keeps_none(r) ==
    [ f \in DOMAIN r |->
        IF f \in Range(feature_order) /\ ~IsNone(r[f])
        THEN Some(min(max(Val(r[f]), feature_clip_ranges[f][1]),
                      feature_clip_ranges[f][2]))
        ELSE r[f] ]

\* Lines 177-182
clip_features(r) ==
    [ f \in DOMAIN r |->
        IF f \in Range(feature_order)
        THEN IF IsNone(r[f])
             THEN Some(0)
             ELSE Some(min(max(Val(r[f]), feature_clip_ranges[f][1]),
                           feature_clip_ranges[f][2]))
        ELSE r[f] ]

\* Line 185 and df_row.iloc[0]: the columns of feature_order
df_row(r) == [f \in Range(feature_order) |-> r[f]]

\* Mutant of category_of: the rule engine is asked whatever the flag.
category_of_always_rules(flag, r) == categorize_anomaly(df_row(r))

\* Line 193
category_of(flag, r) ==
    IF flag # 0 THEN categorize_anomaly(df_row(r)) ELSE "Normal"

\* Lines 196-201
firebase_doc(flag, cat, r) ==
    update([ timestamp  |-> "SERVER_TIMESTAMP",
             is_anomaly |-> flag,
             category   |-> cat ],
           df_row(r))

NoPing == <<None, None, None>>
NoOutput == PingReplies(<<>>)

\* db (line 21), model and scaler (lines 27-28), ser (line 61)
AllResources == {"db", "model", "scaler", "ser"}

\* The values the names of the loop body have before a pass assigns them
NoLocals ==
    /\ ping_output = NoOutput
    /\ serial_poll = NothingWaiting
    /\ ping = NoPing
    /\ sys_data = EmptyDict
    /\ arduino_data = EmptyDict
    /\ wifi_strength = None
    /\ row = EmptyDict
    /\ is_anomaly = 0
    /\ category = ""
    /\ firebase_data = EmptyDict

Init ==
    /\ OthersOff
    /\ pc = "ping"
    /\ iter = 1
    /\ NoLocals
    /\ sink = 0
    /\ handed = 0
    /\ stages = <<>>
    /\ error = ""
    /\ resources = AllResources

\* An exception nothing catches ends the process.
Raise(what) ==
    /\ pc' = "crashed"
    /\ error' = what

\* Line 147
PingTest ==
    /\ UNCHANGED others
    /\ pc = "ping"
    /\ \E out \in PingOutputs :
          /\ ping_output' = out
          /\ ping' = ping_test(out, PingCount)
    /\ pc' = "sys"
    /\ stages' = Append(stages, "Collect")
    /\ UNCHANGED <<resources, serial_poll>>
    /\ UNCHANGED <<iter, sys_data, arduino_data, wifi_strength, row,
                   is_anomaly, category, firebase_data, sink, handed, error>>

\* Line 148.  Nothing catches what the psutil calls raise.
CollectSystemMetrics ==
    /\ UNCHANGED others
    /\ pc = "sys"
    /\ \/ /\ \E t \in CpuThermals, io \in NetIoCounters, l \in CpuLoads :
               sys_data' = collect_system_metrics(t, io[1], io[2], l)
          /\ pc' = "arduino"
          /\ UNCHANGED error
       \/ /\ Raise("collect_system_metrics")
          /\ UNCHANGED sys_data
    /\ UNCHANGED <<resources, serial_poll>>
    /\ UNCHANGED <<iter, ping_output, ping, arduino_data, wifi_strength, row,
                   is_anomaly, category, firebase_data, sink, handed, stages>>

\* Line 149
ReadArduinoData ==
    /\ UNCHANGED others
    /\ pc = "arduino"
    /\ \E poll \in SerialPolls :
          /\ serial_poll' = poll
          /\ IF read_arduino_raises(poll)
             THEN /\ Raise("read_arduino_data")
                  /\ UNCHANGED arduino_data
             ELSE /\ arduino_data' = or_empty(read_arduino_data(poll))
                  /\ pc' = "wifi"
                  /\ UNCHANGED error
    /\ UNCHANGED resources
    /\ UNCHANGED <<iter, ping_output, ping, sys_data, wifi_strength, row,
                   is_anomaly, category, firebase_data, sink, handed, stages>>

\* Line 150
GetWifiStrength ==
    /\ UNCHANGED others
    /\ pc = "wifi"
    /\ \E out \in IwOutputs : wifi_strength' = get_wifi_strength(out)
    /\ pc' = "assemble"
    /\ UNCHANGED <<resources, serial_poll>>
    /\ UNCHANGED <<iter, ping_output, ping, sys_data, arduino_data, row,
                   is_anomaly, category, firebase_data, sink, handed, stages,
                   error>>

\* Mutant of Assemble: the dict of line 153 is built once, before the
\* loop, and every pass updates the row of the pass before.
Assemble_updates_previous_row ==
    /\ UNCHANGED others
    /\ pc = "assemble"
    /\ row' = clip_features(
                 update(update(update(IF DOMAIN row = {}
                                      THEN [f \in Range(feature_order) |-> None]
                                      ELSE row,
                                      sys_data),
                               arduino_data),
                        [ packet_loss   |-> ping[2],
                          ping_avg      |-> ping[1],
                          ping_jitter   |-> ping[3],
                          wifi_strength |-> wifi_strength ]))
    /\ pc' = "classify"
    /\ stages' = Append(stages, "Assemble")
    /\ UNCHANGED <<resources, serial_poll>>
    /\ UNCHANGED <<iter, ping_output, ping, sys_data, arduino_data,
                   wifi_strength, is_anomaly, category, firebase_data, sink,
                   handed, error>>

\* Lines 153-182
Assemble ==
    /\ UNCHANGED others
    /\ pc = "assemble"
    /\ row' = clip_features(merge_row(sys_data, arduino_data, ping,
                                      wifi_strength))
    /\ pc' = "classify"
    /\ stages' = Append(stages, "Assemble")
    /\ UNCHANGED <<resources, serial_poll>>
    /\ UNCHANGED <<iter, ping_output, ping, sys_data, arduino_data,
                   wifi_strength, is_anomaly, category, firebase_data, sink,
                   handed, error>>

\* Mutant of Classify: the scaler writes the scaled values into the row.
Classify_scales_in_place ==
    /\ UNCHANGED others
    /\ pc = "classify"
    /\ \E pred \in {1, -1} : is_anomaly' = IF pred = -1 THEN 1 ELSE 0
    /\ row' = [f \in DOMAIN row |-> Some(Val(row[f]) \div 10)]
    /\ pc' = "categorize"
    /\ stages' = Append(stages, "Classify")
    /\ UNCHANGED <<resources, serial_poll>>
    /\ UNCHANGED <<iter, ping_output, ping, sys_data, arduino_data,
                   wifi_strength, category, firebase_data, sink, handed,
                   error>>

\* Lines 185-190.  The scaler and the model are artifacts loaded from disk:
\* predict answers 1 or -1 on any row.
Classify ==
    /\ UNCHANGED others
    /\ pc = "classify"
    /\ \E pred \in {1, -1} : is_anomaly' = IF pred = -1 THEN 1 ELSE 0
    /\ pc' = "categorize"
    /\ stages' = Append(stages, "Classify")
    /\ UNCHANGED <<resources, serial_poll>>
    /\ UNCHANGED <<iter, ping_output, ping, sys_data, arduino_data,
                   wifi_strength, row, category, firebase_data, sink, handed,
                   error>>

\* Mutant of Categorize: a row that is not anomalous is not uploaded.
Categorize_uploads_anomalies_only ==
    /\ UNCHANGED others
    /\ pc = "categorize"
    /\ category' = category_of(is_anomaly, row)
    /\ pc' = IF is_anomaly # 0 THEN "publish" ELSE "sleep"
    /\ stages' = Append(stages, "Categorize")
    /\ UNCHANGED <<resources, serial_poll>>
    /\ UNCHANGED <<iter, ping_output, ping, sys_data, arduino_data,
                   wifi_strength, row, is_anomaly, firebase_data, sink,
                   handed, error>>

\* Line 193
Categorize ==
    /\ UNCHANGED others
    /\ pc = "categorize"
    /\ category' = category_of(is_anomaly, row)
    /\ pc' = "publish"
    /\ stages' = Append(stages, "Categorize")
    /\ UNCHANGED <<resources, serial_poll>>
    /\ UNCHANGED <<iter, ping_output, ping, sys_data, arduino_data,
                   wifi_strength, row, is_anomaly, firebase_data, sink,
                   handed, error>>

\* Lines 196-205.  Nothing catches what add() raises.
Publish ==
    /\ UNCHANGED others
    /\ pc = "publish"
    /\ firebase_data' = firebase_doc(is_anomaly, category, row)
    /\ handed' = handed + 1
    /\ stages' = Append(stages, "Publish")
    /\ \/ /\ sink' = sink + 1
          /\ pc' = "sleep"
          /\ UNCHANGED error
       \/ /\ Raise("add")
          /\ UNCHANGED sink
    /\ UNCHANGED <<resources, serial_poll>>
    /\ UNCHANGED <<iter, ping_output, ping, sys_data, arduino_data,
                   wifi_strength, row, is_anomaly, category>>

\* Line 207 and the jump back to line 145.  Every name of the body is
\* assigned again (lines 147-153, 185-196) before it is read, so the values
\* the pass leaves behind are dropped here.
Sleep ==
    /\ UNCHANGED others
    /\ pc = "sleep"
    /\ iter < MaxIter
    /\ iter' = iter + 1
    /\ pc' = "ping"
    /\ ping_output' = NoOutput
    /\ serial_poll' = NothingWaiting
    /\ ping' = NoPing
    /\ sys_data' = EmptyDict
    /\ arduino_data' = EmptyDict
    /\ wifi_strength' = None
    /\ row' = EmptyDict
    /\ is_anomaly' = 0
    /\ category' = ""
    /\ firebase_data' = EmptyDict
    /\ handed' = 0
    /\ stages' = <<>>
    /\ UNCHANGED <<sink, error, resources>>

Next ==
    \/ PingTest
    \/ CollectSystemMetrics
    \/ ReadArduinoData
    \/ GetWifiStrength
    \/ Assemble
    \/ Classify
    \/ Categorize
    \/ Publish
    \/ Sleep

Spec == Init /\ [][Next]_vars

--------------------------------------------------------------------------
\* categorize_anomaly on its own: the rule engine applied to feature
\* vectors on and next to the thresholds of its rules, each within the
\* clip ranges, as line 193 applies it to a row flagged anomalous.

RuleVectors ==
    { update([f \in Range(feature_order) |-> Some(0)],
             [ ping_avg      |-> Some(avg),
               packet_loss   |-> Some(loss),
               ping_jitter   |-> Some(jitter),
               cpu_temp      |-> Some(temp),
               cpu_load      |-> Some(load),
               motion_level  |-> Some(motion),
               wifi_strength |-> Some(wifi) ]) :
        avg \in {0, 2, 100, 101},
        loss \in {0, 1},
        jitter \in {0, 1, 30, 31, 40, 41, 60, 61},
        temp \in {65, 66},
        load \in {6, 7, 8, 9},
        motion \in {0, 1},
        wifi \in {-71, -70} }

InitRules ==
    /\ OthersOff
    /\ pc = "categorize"
    /\ iter = 1
    /\ ping_output = NoOutput
    /\ serial_poll = NothingWaiting
    /\ ping = NoPing
    /\ sys_data = EmptyDict
    /\ arduino_data = EmptyDict
    /\ wifi_strength = None
    /\ row \in RuleVectors
    /\ is_anomaly = 1
    /\ category = ""
    /\ firebase_data = EmptyDict
    /\ sink = 0
    /\ handed = 0
    /\ stages = <<"Collect", "Assemble", "Classify">>
    /\ error = ""
    /\ resources = AllResources

NextRules == Categorize

SpecRules == InitRules /\ [][NextRules]_vars

--------------------------------------------------------------------------
\* The script from its first line: lines 19-62 run once, top to bottom, and
\* then the loop.  Nothing catches what a statement of lines 19-62 raises.

locals ==
    <<ping_output, serial_poll, ping, sys_data, arduino_data, wifi_strength,
      row, is_anomaly, category, firebase_data>>

StartupErrors == {"firebase_admin", "joblib.load", "serial.Serial"}

LoopPcs ==
    {"ping", "sys", "arduino", "wifi", "assemble", "classify", "categorize",
     "publish", "sleep"}

InitProcess ==
    /\ OthersOff
    /\ pc = "firebase"
    /\ iter = 1
    /\ NoLocals
    /\ sink = 0
    /\ handed = 0
    /\ stages = <<>>
    /\ error = ""
    /\ resources = {}

\* Lines 19-21: the key file may be missing, the client may not be built.
InitializeFirebase ==
    /\ UNCHANGED others
    /\ pc = "firebase"
    /\ \/ /\ resources' = resources \cup {"db"}
          /\ pc' = "load_model"
          /\ UNCHANGED error
       \/ /\ Raise("firebase_admin")
          /\ UNCHANGED resources
    /\ UNCHANGED <<locals, iter, sink, handed, stages>>

\* Mutant of LoadModel: a failed load is passed over and the script goes on.
LoadModel_passes_over_failure ==
    /\ UNCHANGED others
    /\ pc = "load_model"
    /\ \/ /\ resources' = resources \cup {"model"}
          /\ UNCHANGED error
       \/ /\ error' = "joblib.load"
          /\ UNCHANGED resources
    /\ pc' = "load_scaler"
    /\ UNCHANGED <<locals, iter, sink, handed, stages>>

\* Line 27: joblib.load raises on a missing or corrupt file.
LoadModel ==
    /\ UNCHANGED others
    /\ pc = "load_model"
    /\ \/ /\ resources' = resources \cup {"model"}
          /\ pc' = "load_scaler"
          /\ UNCHANGED error
       \/ /\ Raise("joblib.load")
          /\ UNCHANGED resources
    /\ UNCHANGED <<locals, iter, sink, handed, stages>>

\* Line 28
LoadScaler ==
    /\ UNCHANGED others
    /\ pc = "load_scaler"
    /\ \/ /\ resources' = resources \cup {"scaler"}
          /\ pc' = "open_serial"
          /\ UNCHANGED error
       \/ /\ Raise("joblib.load")
          /\ UNCHANGED resources
    /\ UNCHANGED <<locals, iter, sink, handed, stages>>

\* Lines 61-62: serial.Serial raises SerialException when the port cannot be
\* opened; after the wait of line 62 the loop begins.
OpenSerial ==
    /\ UNCHANGED others
    /\ pc = "open_serial"
    /\ \/ /\ resources' = resources \cup {"ser"}
          /\ pc' = "ping"
          /\ UNCHANGED error
       \/ /\ Raise("serial.Serial")
          /\ UNCHANGED resources
    /\ UNCHANGED <<locals, iter, sink, handed, stages>>

\* SIGINT or SIGTERM while the loop runs.  The script installs no handler
\* and has no try/finally: SIGTERM ends the process where it is, SIGINT
\* raises KeyboardInterrupt at the statement being run (inside ping_test and
\* get_wifi_strength the bare except takes it for a failed probe, which
\* PingError and IwError already are).  The script never calls ser.close();
\* the port is closed with the process, and the names of the body go with it.
Interrupt ==
    /\ UNCHANGED others
    /\ pc \in LoopPcs
    /\ pc' = "stopped"
    /\ resources' = {}
    /\ ping_output' = NoOutput
    /\ serial_poll' = NothingWaiting
    /\ ping' = NoPing
    /\ sys_data' = EmptyDict
    /\ arduino_data' = EmptyDict
    /\ wifi_strength' = None
    /\ row' = EmptyDict
    /\ is_anomaly' = 0
    /\ category' = ""
    /\ firebase_data' = EmptyDict
    /\ UNCHANGED <<iter, sink, handed, stages, error>>

NextProcess ==
    \/ InitializeFirebase
    \/ LoadModel
    \/ LoadScaler
    \/ OpenSerial
    \/ PingTest
    \/ CollectSystemMetrics
    \/ ReadArduinoData
    \/ GetWifiStrength
    \/ Assemble
    \/ Classify
    \/ Categorize
    \/ Publish
    \/ Sleep
    \/ Interrupt

SpecProcess == InitProcess /\ [][NextProcess]_vars

--------------------------------------------------------------------------
\* A pass that follows another.  `while True` (line 145) opens no scope:
\* at line 147 of the second pass every name of the body still holds what
\* the pass before assigned to it.

\* The names of the body at line 207 of a pass whose probes had these
\* outcomes and whose row the model flagged with `flag`
LeftBy(out, thermal, io, load, poll, iw, flag) ==
    LET png  == ping_test(out, PingCount)
        sys  == collect_system_metrics(thermal, io[1], io[2], load)
        ard  == or_empty(read_arduino_data(poll))
        wifi == get_wifi_strength(iw)
        r    == clip_features(merge_row(sys, ard, png, wifi))
        cat  == category_of(flag, r)
    IN [ ping_output   |-> out,
         serial_poll   |-> poll,
         ping          |-> png,
         sys_data      |-> sys,
         arduino_data  |-> ard,
         wifi_strength |-> wifi,
         row           |-> r,
         is_anomaly    |-> flag,
         category      |-> cat,
         firebase_data |-> firebase_doc(flag, cat, r) ]

\* Passes in which every probe answered and every field was measured
EarlierPasses ==
    { LeftBy(PingReplies(<<137, 150, 163>>), Some(70), <<1000, 2000>>, 7,
             FullLine(25, 40, 3, 100, 5), IwSignal(-80), flag) :
        flag \in {0, 1} }

InitCarry ==
    /\ OthersOff
    /\ pc = "ping"
    /\ iter = 2
    /\ \E p \in EarlierPasses :
          /\ ping_output = p.ping_output
          /\ serial_poll = p.serial_poll
          /\ ping = p.ping
          /\ sys_data = p.sys_data
          /\ arduino_data = p.arduino_data
          /\ wifi_strength = p.wifi_strength
          /\ row = p.row
          /\ is_anomaly = p.is_anomaly
          /\ category = p.category
          /\ firebase_data = p.firebase_data
    /\ sink = 1
    /\ handed = 0
    /\ stages = <<>>
    /\ error = ""
    /\ resources = AllResources

NextCarry ==
    \/ PingTest
    \/ CollectSystemMetrics
    \/ ReadArduinoData
    \/ GetWifiStrength
    \/ Assemble
    \/ Classify
    \/ Categorize
    \/ Publish

SpecCarry == InitCarry /\ [][NextCarry]_vars

--------------------------------------------------------------------------
\* The serial bridge (src/serial_data.py, lines 15-39)

\* Bytes are one-character strings; Invalid stands for a byte that is no
\* part of a UTF-8 sequence.
Invalid == "?"
Whitespace == {" ", "\t", "\r", "\n"}

\* bytes.decode('utf-8', errors='ignore'): the invalid bytes are dropped
decode_ignore(bytes) == SelectSeq(bytes, LAMBDA c : c # Invalid)

RECURSIVE lstrip(_)
lstrip(text) ==
    IF text # <<>> /\ Head(text) \in Whitespace
    THEN lstrip(Tail(text))
    ELSE text

RECURSIVE rstrip(_)
rstrip(text) ==
    IF text # <<>> /\ text[Len(text)] \in Whitespace
    THEN rstrip(SubSeq(text, 1, Len(text) - 1))
    ELSE text

\* str.strip()
strip(text) == rstrip(lstrip(text))

\* (line + '\n').encode('utf-8')
encode_line(line) == Append(line, "\n")

\* Numbers of lines the two devices send while the model follows them
MaxLines == 3
MaxReplies == 2

\* What one readline() may return: the bytes up to and including the
\* first newline, or, after the timeout of 1 s, the bytes that came so far.
Acm0Lines ==
    { <<"a", "b", "\n">>,
      <<" ", "a", "\r", "\n">>,       \* "\r\n" line end, leading blank
      <<"a", Invalid, "b", "\n">>,    \* a byte that is not UTF-8
      <<"\n">>,                       \* an empty line
      <<"a">> }                       \* cut by the timeout

Acm1Lines == { <<"o", "k", "\n">>, <<Invalid, "\n">> }

InitBridge ==
    /\ DetectorOff
    /\ DashboardOff
    /\ RequestsOff
    /\ bridge_pc = "open"
    /\ acm0_rx = <<>>
    /\ acm1_rx = <<>>
    /\ acm0_tx = <<>>
    /\ acm1_tx = <<>>
    /\ read_lines = <<>>
    /\ printed = <<>>

\* Lines 18-22: serial.Serial raises when a port cannot be opened.
OpenPorts ==
    /\ bridge_pc = "open"
    /\ bridge_pc' \in {"acm0", "crashed"}
    /\ UNCHANGED <<acm0_rx, acm1_rx, acm0_tx, acm1_tx, read_lines, printed>>
    /\ UNCHANGED <<detectorVars, dashboardVars, requestVars>>

\* The device at ACM0 sends a line.
Acm0Sends ==
    /\ Len(read_lines) + Len(acm0_rx) < MaxLines
    /\ \E l \in Acm0Lines : acm0_rx' = Append(acm0_rx, l)
    /\ UNCHANGED <<bridge_pc, acm1_rx, acm0_tx, acm1_tx, read_lines, printed>>
    /\ UNCHANGED <<detectorVars, dashboardVars, requestVars>>

\* The device at ACM1 sends a line.
Acm1Sends ==
    /\ Len(printed) + Len(acm1_rx) < MaxReplies
    /\ \E l \in Acm1Lines : acm1_rx' = Append(acm1_rx, l)
    /\ UNCHANGED <<bridge_pc, acm0_rx, acm0_tx, acm1_tx, read_lines, printed>>
    /\ UNCHANGED <<detectorVars, dashboardVars, requestVars>>

\* Mutant of ForwardAcm0: a line that is empty once stripped is not
\* forwarded.
ForwardAcm0_drops_empty_lines ==
    /\ bridge_pc = "acm0"
    /\ \/ /\ bridge_pc' = "crashed"
          /\ UNCHANGED <<acm0_rx, read_lines, acm1_tx>>
       \/ /\ acm0_rx = <<>>
          /\ bridge_pc' = "acm1"
          /\ UNCHANGED <<acm0_rx, read_lines, acm1_tx>>
       \/ /\ acm0_rx # <<>>
          /\ LET line == strip(decode_ignore(Head(acm0_rx))) IN
             /\ acm0_rx' = Tail(acm0_rx)
             /\ read_lines' = Append(read_lines, Head(acm0_rx))
             /\ \/ /\ acm1_tx' = IF line = <<>> THEN acm1_tx
                                 ELSE Append(acm1_tx, encode_line(line))
                   /\ bridge_pc' = "acm1"
                \/ /\ bridge_pc' = "crashed in write"
                   /\ UNCHANGED acm1_tx
    /\ UNCHANGED <<acm1_rx, acm0_tx, printed>>
    /\ UNCHANGED <<detectorVars, dashboardVars, requestVars>>

\* Lines 26-32.  in_waiting and readline raise SerialException when the
\* port is gone, write when ACM1 is gone; nothing catches them.
ForwardAcm0 ==
    /\ bridge_pc = "acm0"
    /\ \/ /\ bridge_pc' = "crashed"
          /\ UNCHANGED <<acm0_rx, read_lines, acm1_tx>>
       \/ /\ acm0_rx = <<>>
          /\ bridge_pc' = "acm1"
          /\ UNCHANGED <<acm0_rx, read_lines, acm1_tx>>
       \/ /\ acm0_rx # <<>>
          /\ LET line == strip(decode_ignore(Head(acm0_rx))) IN
             /\ acm0_rx' = Tail(acm0_rx)
             /\ read_lines' = Append(read_lines, Head(acm0_rx))
             /\ \/ /\ acm1_tx' = Append(acm1_tx, encode_line(line))
                   /\ bridge_pc' = "acm1"
                \/ /\ bridge_pc' = "crashed in write"
                   /\ UNCHANGED acm1_tx
    /\ UNCHANGED <<acm1_rx, acm0_tx, printed>>
    /\ UNCHANGED <<detectorVars, dashboardVars, requestVars>>

\* Lines 35-37
ReadAcm1 ==
    /\ bridge_pc = "acm1"
    /\ \/ /\ bridge_pc' = "crashed"
          /\ UNCHANGED <<acm1_rx, printed>>
       \/ /\ acm1_rx = <<>>
          /\ bridge_pc' = "sleep"
          /\ UNCHANGED <<acm1_rx, printed>>
       \/ /\ acm1_rx # <<>>
          /\ acm1_rx' = Tail(acm1_rx)
          /\ printed' = Append(printed, strip(decode_ignore(Head(acm1_rx))))
          /\ bridge_pc' = "sleep"
    /\ UNCHANGED <<acm0_rx, acm0_tx, acm1_tx, read_lines>>
    /\ UNCHANGED <<detectorVars, dashboardVars, requestVars>>

\* Line 39 and the jump back to line 24
BridgeSleep ==
    /\ bridge_pc = "sleep"
    /\ bridge_pc' = "acm0"
    /\ UNCHANGED <<acm0_rx, acm1_rx, acm0_tx, acm1_tx, read_lines, printed>>
    /\ UNCHANGED <<detectorVars, dashboardVars, requestVars>>

NextBridge ==
    \/ OpenPorts
    \/ Acm0Sends
    \/ Acm1Sends
    \/ ForwardAcm0
    \/ ReadAcm1
    \/ BridgeSleep

SpecBridge == InitBridge /\ [][NextBridge]_vars

--------------------------------------------------------------------------
\* The tool get_network_health_dashboard (src/server.py, lines 445-545)

\* Values as json.dumps sees them: a datetime, a number, a string, or a
\* container of values json.dumps can write
Datetime == [type |-> "datetime"]
Number(v) == [type |-> "int", val |-> v]
String(v) == [type |-> "str", val |-> v]
Container == [type |-> "container"]

\* json.dumps(doc, indent=2), called without default=: a datetime is not
\* JSON serializable and TypeError is raised.
json_dumps_raises(doc) == \E k \in DOMAIN doc : doc[k].type = "datetime"

\* Lines 478-519: the deductions, made one after the other, and the max
health_score_of(c) ==
    LET s1 == 100 - (IF c.ping_ms > 100 THEN 20 ELSE 0)
        s2 == s1 - (IF c.jitter_ms > 10 THEN 15 ELSE 0)
        s3 == s2 - (IF c.download_mbps < 10 THEN 25 ELSE 0)
        s4 == s3 - (IF c.upload_mbps < 5 THEN 20 ELSE 0)
        s5 == s4 - (IF c.packet_loss_percent > 1 THEN 30 ELSE 0)
        s6 == s5 - (IF c.wifi_rssi_dbm < -70 THEN 15 ELSE 0)
        s7 == s6 - (IF c.temperature_c > 70 THEN 10 ELSE 0)
    IN max(0, s7)

\* Lines 521-532
status_of(score) ==
    IF score >= 90 THEN "excellent"
    ELSE IF score >= 70 THEN "good"
    ELSE IF score >= 50 THEN "fair"
    ELSE "poor"

\* Lines 535-543
dashboard_of(score, stat) ==
    [ timestamp       |-> Datetime,         \* datetime.now(timezone.utc)
      health_score    |-> Number(score),
      status          |-> String(stat),
      summary         |-> String("summary"),
      current_metrics |-> Container,
      issues          |-> Container,
      recommendations |-> Container ]

\* Metric values as the latest network log, or the random defaults, give
\* them: on and next to each threshold
Metrics ==
    [ ping_ms             : {100, 101},
      jitter_ms           : {10, 11},
      download_mbps       : {9, 10},
      upload_mbps         : {4, 5},
      packet_loss_percent : {1, 2},
      wifi_rssi_dbm       : {-71, -70},
      temperature_c       : {70, 71} ]

InitDashboard ==
    /\ DetectorOff
    /\ BridgeOff
    /\ RequestsOff
    /\ current = EmptyDict
    /\ health_score = 100
    /\ status = ""
    /\ tool_reply = NoReply

\* call_tool("get_network_health_dashboard"): lines 445-545, and the
\* handler of lines 572-575 for what they raise
GetNetworkHealthDashboard ==
    /\ \E c \in Metrics :
          LET score == health_score_of(c)
              stat  == status_of(score)
              doc   == dashboard_of(score, stat)
          IN /\ current' = c
             /\ health_score' = score
             /\ status' = stat
             /\ tool_reply' =
                   IF json_dumps_raises(doc)
                   THEN [kind |-> "error",
                         text |-> "Error executing get_network_health_dashboard"]
                   ELSE [kind         |-> "text",
                         health_score |-> doc.health_score.val,
                         status       |-> doc.status.val]
    /\ UNCHANGED <<detectorVars, bridgeVars, requestVars>>

NextDashboard == GetNetworkHealthDashboard

SpecDashboard == InitDashboard /\ [][NextDashboard]_vars

--------------------------------------------------------------------------
\* The AI requests (src/server.py, lines 87-218 and 555-567), in a server
\* whose Firebase and Anthropic clients were made (lines 22-28).
\*
\* on_snapshot is called on the watch thread of the Firestore client,
\* call_tool on the thread of the event loop; process_ai_request is an
\* ordinary function, which either thread runs to its end.  Each call of a
\* Firestore or Anthropic method is one step, and may raise.

\* Number of process_pending_requests calls the model follows
MaxToolCalls == 1

\* expires_at of a request, as line 123 finds it: no such field, a time
\* still to come, a time gone by, or a time gone by that the client wrote
\* as text (str < datetime raises TypeError)
ExpiresAt == {"none", "future", "past", "past_text"}

\* The documents of ai_requests with status pending, in the order of the
\* stream
RECURSIVE PendingStream(_)
PendingStream(rs) ==
    IF rs = {} THEN <<>>
    ELSE LET r == CHOOSE x \in rs : \A y \in rs : x = y \/ x = "r1" IN
         IF ai_requests[r].status = "pending"
         THEN <<r>> \o PendingStream(rs \ {r})
         ELSE PendingStream(rs \ {r})

InitRequests ==
    /\ DetectorOff
    /\ BridgeOff
    /\ DashboardOff
    /\ ai_requests = [r \in Requests |-> [status |-> "absent",
                                           expires_at |-> "none",
                                           prompt |-> FALSE]]
    /\ ai_responses = [r \in Requests |-> [success |-> 0, failure |-> 0]]
    /\ changes = <<>>
    /\ pending = <<>>
    /\ notified = {}
    /\ wpc = [t \in Threads |-> "idle"]
    /\ run = [t \in Threads |-> NoRun]
    /\ runs = [r \in Requests |-> 0]
    /\ backend_calls = [r \in Requests |-> 0]
    /\ tool_calls = 0

\* A client adds a document with status pending to ai_requests.
SubmitRequest ==
    /\ \E r \in Requests, e \in ExpiresAt, p \in BOOLEAN :
          /\ ai_requests[r].status = "absent"
          /\ ai_requests' = [ai_requests EXCEPT ![r] =
                               [status |-> "pending", expires_at |-> e,
                                prompt |-> p]]
    /\ UNCHANGED <<ai_responses, changes, pending, notified, wpc, run, runs,
                   backend_calls, tool_calls>>
    /\ UNCHANGED <<detectorVars, bridgeVars, dashboardVars>>

\* Lines 108-110 and 96-101: the listener on status == 'pending' is handed
\* the ADDED change of a document that is pending (one change a snapshot).
DeliverChange ==
    /\ \E r \in Requests :
          /\ ai_requests[r].status = "pending"
          /\ r \notin notified
          /\ notified' = notified \cup {r}
          /\ changes' = Append(changes, r)
    /\ UNCHANGED <<ai_requests, ai_responses, pending, wpc, run, runs,
                   backend_calls, tool_calls>>
    /\ UNCHANGED <<detectorVars, bridgeVars, dashboardVars>>

\* Lines 555-562: the tool reads the documents that are pending now.
ProcessPendingRequests ==
    /\ wpc["tool"] = "idle"
    /\ pending = <<>>
    /\ tool_calls < MaxToolCalls
    /\ tool_calls' = tool_calls + 1
    /\ pending' = PendingStream(Requests)
    /\ UNCHANGED <<ai_requests, ai_responses, changes, notified, wpc, run,
                   runs, backend_calls>>
    /\ UNCHANGED <<detectorVars, bridgeVars, dashboardVars>>

\* Lines 102-106 (the data of the change say pending) and 564: the thread
\* calls process_ai_request on the next document it was given.
Begin(t) ==
    /\ wpc[t] = "idle"
    /\ IF t = "watcher"
       THEN /\ changes # <<>>
            /\ run' = [run EXCEPT ![t] = [NoRun EXCEPT !.request = Head(changes)]]
            /\ runs' = [runs EXCEPT ![Head(changes)] = @ + 1]
            /\ changes' = Tail(changes)
            /\ UNCHANGED pending
       ELSE /\ pending # <<>>
            /\ run' = [run EXCEPT ![t] = [NoRun EXCEPT !.request = Head(pending)]]
            /\ runs' = [runs EXCEPT ![Head(pending)] = @ + 1]
            /\ pending' = Tail(pending)
            /\ UNCHANGED changes
    /\ wpc' = [wpc EXCEPT ![t] = "check"]
    /\ UNCHANGED <<ai_requests, ai_responses, notified, backend_calls,
                   tool_calls>>
    /\ UNCHANGED <<detectorVars, bridgeVars, dashboardVars>>

\* update_request_status (lines 207-218) called by thread t: the update is
\* made, or it raises and line 217 catches it.
update_request_status(t, new_status) ==
    \/ /\ ai_requests' = [ai_requests EXCEPT ![run[t].request].status = new_status]
       /\ run' = [run EXCEPT ![t].set = new_status]
    \/ UNCHANGED <<ai_requests, run>>

\* An exception leaves process_ai_request: line 572 catches it in the tool
\* and the rest of the stream is not gone through; on the watch thread it
\* ends the callback.
Leave(t) ==
    /\ wpc' = [wpc EXCEPT ![t] = "idle"]
    /\ pending' = IF t = "tool" THEN <<>> ELSE pending

\* Lines 121-131
Check(t) ==
    /\ wpc[t] = "check"
    /\ LET data == ai_requests[run[t].request] IN
       IF data.expires_at = "past"
       THEN /\ update_request_status(t, "expired")
            /\ wpc' = [wpc EXCEPT ![t] = "idle"]
       ELSE /\ wpc' = [wpc EXCEPT ![t] =
                         IF data.expires_at = "past_text" THEN "add_error"
                         ELSE IF ~data.prompt THEN "add_error"
                         ELSE "call"]
            /\ UNCHANGED <<ai_requests, run>>
    /\ UNCHANGED <<ai_responses, changes, pending, notified, runs,
                   backend_calls, tool_calls>>
    /\ UNCHANGED <<detectorVars, bridgeVars, dashboardVars>>

\* Lines 136-151: client.messages.create answers or raises.
CallBackend(t) ==
    /\ wpc[t] = "call"
    /\ backend_calls' = [backend_calls EXCEPT ![run[t].request] = @ + 1]
    /\ run' = [run EXCEPT ![t].called = TRUE]
    /\ \E next \in {"add_response", "add_error"} :
          wpc' = [wpc EXCEPT ![t] = next]
    /\ UNCHANGED <<ai_requests, ai_responses, changes, pending, notified,
                   runs, tool_calls>>
    /\ UNCHANGED <<detectorVars, bridgeVars, dashboardVars>>

\* Mutant of AddResponse: the request is marked completed before the
\* response is added.
AddResponse_after_status(t) ==
    /\ wpc[t] = "add_response"
    /\ ai_requests' = [ai_requests EXCEPT ![run[t].request].status = "completed"]
    /\ \/ /\ ai_responses' = [ai_responses EXCEPT ![run[t].request].success = @ + 1]
          /\ run' = [run EXCEPT ![t].wrote = @ \cup {"success"},
                                ![t].set = "completed"]
          /\ wpc' = [wpc EXCEPT ![t] = "set_completed"]
       \/ /\ wpc' = [wpc EXCEPT ![t] = "add_error"]
          /\ run' = [run EXCEPT ![t].set = "completed"]
          /\ UNCHANGED ai_responses
    /\ UNCHANGED <<changes, pending, notified, runs, backend_calls,
                   tool_calls>>
    /\ UNCHANGED <<detectorVars, bridgeVars, dashboardVars>>

\* Lines 154-171: the success document is added, or add() raises.
AddResponse(t) ==
    /\ wpc[t] = "add_response"
    /\ \/ /\ ai_responses' = [ai_responses EXCEPT ![run[t].request].success = @ + 1]
          /\ run' = [run EXCEPT ![t].wrote = @ \cup {"success"}]
          /\ wpc' = [wpc EXCEPT ![t] = "set_completed"]
       \/ /\ wpc' = [wpc EXCEPT ![t] = "add_error"]
          /\ UNCHANGED <<ai_responses, run>>
    /\ UNCHANGED <<ai_requests, changes, pending, notified, runs,
                   backend_calls, tool_calls>>
    /\ UNCHANGED <<detectorVars, bridgeVars, dashboardVars>>

\* Lines 175-176
SetCompleted(t) ==
    /\ wpc[t] = "set_completed"
    /\ update_request_status(t, "completed")
    /\ wpc' = [wpc EXCEPT ![t] = "idle"]
    /\ UNCHANGED <<ai_responses, changes, pending, notified, runs,
                   backend_calls, tool_calls>>
    /\ UNCHANGED <<detectorVars, bridgeVars, dashboardVars>>

\* Lines 178-197: the error document is added, or add() raises.
AddError(t) ==
    /\ wpc[t] = "add_error"
    /\ \/ /\ ai_responses' = [ai_responses EXCEPT ![run[t].request].failure = @ + 1]
          /\ run' = [run EXCEPT ![t].wrote = @ \cup {"failure"}]
          /\ wpc' = [wpc EXCEPT ![t] = "set_failed"]
          /\ UNCHANGED pending
       \/ /\ Leave(t)
          /\ UNCHANGED <<ai_responses, run>>
    /\ UNCHANGED <<ai_requests, changes, notified, runs, backend_calls,
                   tool_calls>>
    /\ UNCHANGED <<detectorVars, bridgeVars, dashboardVars>>

\* Lines 199-205: the update to failed is made, or it raises.
SetFailed(t) ==
    /\ wpc[t] = "set_failed"
    /\ \/ /\ ai_requests' = [ai_requests EXCEPT ![run[t].request].status = "failed"]
          /\ run' = [run EXCEPT ![t].set = "failed"]
          /\ wpc' = [wpc EXCEPT ![t] = "idle"]
          /\ UNCHANGED pending
       \/ /\ Leave(t)
          /\ UNCHANGED <<ai_requests, run>>
    /\ UNCHANGED <<ai_responses, changes, notified, runs, backend_calls,
                   tool_calls>>
    /\ UNCHANGED <<detectorVars, bridgeVars, dashboardVars>>

NextRequests ==
    \/ SubmitRequest
    \/ DeliverChange
    \/ ProcessPendingRequests
    \/ \E t \in Threads : Begin(t)
    \/ \E t \in Threads : Check(t)
    \/ \E t \in Threads : CallBackend(t)
    \/ \E t \in Threads : AddResponse(t)
    \/ \E t \in Threads : SetCompleted(t)
    \/ \E t \in Threads : AddError(t)
    \/ \E t \in Threads : SetFailed(t)

SpecRequests == InitRequests /\ [][NextRequests]_vars

--------------------------------------------------------------------------
\* Properties of the sample loop

\* The states in which `row` holds the assembled feature vector of the pass
Assembled ==
    \/ pc \in {"classify", "categorize", "publish", "sleep"}
    \/ pc = "crashed" /\ error = "add"

\* The states in which `category` holds the category of the pass
Categorized ==
    \/ pc \in {"publish", "sleep"}
    \/ pc = "crashed" /\ error = "add"

\* The merged, not yet defaulted, row of the pass
Merged == merge_row(sys_data, arduino_data, ping, wifi_strength)

Fields == Range(feature_order)

WithinRange(f, v) ==
    feature_clip_ranges[f][1] <= v /\ v <= feature_clip_ranges[f][2]

\* max(min_f, min(max_f, v))
Clipped(f, v) ==
    max(feature_clip_ranges[f][1], min(feature_clip_ranges[f][2], v))

\* C1: after the assembly step every one of the 17 fields of the feature
\* vector lies within its clip range.
C1_AllFieldsWithinClipRange ==
    Assembled =>
        \A f \in Fields : ~IsNone(row[f]) /\ WithinRange(f, Val(row[f]))

\* C2: a record whose flag is_anomaly is 0 has the category Normal, also
\* where the rule engine would answer otherwise.
C2_NotAnomalousIsNormal ==
    /\ Categorized /\ is_anomaly = 0 => category = "Normal"
    /\ DOMAIN firebase_data # {} /\ firebase_data["is_anomaly"] = 0
          => firebase_data["category"] = "Normal"

\* C2 witness: a record flagged 0 was stored as Normal although the rule
\* engine names another category for its feature vector.
C2_Witness ==
    /\ pc = "sleep"
    /\ sink > 0
    /\ firebase_data["is_anomaly"] = 0
    /\ firebase_data["category"] = "Normal"
    /\ categorize_anomaly(df_row(row)) # "Normal"

\* The rule list of the rule engine as the specification words it: the
\* predicates in their fixed order, each with its label.
C3_Rules(r) ==
    << << network_bad(r) /\ (num(r, "cpu_temp") > 65 \/ num(r, "cpu_load") > 6),
          "Thermal" >>,
       << network_bad(r) /\ num(r, "motion_level") > 0,
          "Motion-Induced" >>,
       << network_bad(r) /\ (\/ num(r, "wifi_strength") < -70
                             \/ num(r, "ping_jitter") > 40
                             \/ jitter_ratio_gt(r, 4)),
          "Weak Signal" >>,
       << /\ (num(r, "ping_jitter") > 40 \/ jitter_ratio_gt(r, 6))
          /\ num(r, "cpu_temp") <= 65
          /\ num(r, "wifi_strength") >= -70,
          "Unknown Network Issue" >>,
       << network_bad(r) /\ num(r, "cpu_load") > 8,
          "System Load" >> >>

C3_FirstMatch(r) ==
    LET rules == C3_Rules(r)
        hits == {i \in DOMAIN rules : rules[i][1]}
    IN  IF hits = {} THEN "Normal"
        ELSE rules[CHOOSE i \in hits : \A j \in hits : i <= j][2]

\* C3: categorize_anomaly answers the label of the first rule of the list
\* whose predicate holds, Normal when none holds; so does the category of
\* every record flagged anomalous.
C3_FirstMatchingRuleWins ==
    /\ Assembled => categorize_anomaly(df_row(row)) = C3_FirstMatch(row)
    /\ Categorized /\ is_anomaly = 1 => category = C3_FirstMatch(row)

\* C3 witness: scenario B of the specification (ping_avg 50, packet_loss 0,
\* ping_jitter 35, cpu_temp 50, cpu_load 1, motion_level 3, wifi -50),
\* flagged anomalous: rule 1 does not hold, rule 2 and rule 4 do.
C3_Witness ==
    /\ pc = "publish"
    /\ is_anomaly = 1
    /\ num(row, "ping_avg") = 50 /\ num(row, "packet_loss") = 0
    /\ num(row, "ping_jitter") = 35 /\ num(row, "motion_level") = 3
    /\ num(row, "wifi_strength") = -50
    /\ ~C3_Rules(row)[1][1] /\ C3_Rules(row)[2][1] /\ C3_Rules(row)[4][1]
    /\ category = "Motion-Induced"

\* The calls of the Collect stage
Probes ==
    {"ping_test", "collect_system_metrics", "read_arduino_data",
     "get_wifi_strength"}

\* C4: a failing probe only leaves fields absent: no failure of a probe
\* ends the pass or the process.
C4_ProbeFailureIsolated == ~(pc = "crashed" /\ error \in Probes)

\* C5: a failure of the sink during Publish does not end the loop.
C5_SinkFailureIsolated == ~(pc = "crashed" /\ error = "add")

\* C6: a ping that raises or shows no reply line makes ping_test return
\* (None, 100, None), and ping_test raises nothing.
C6_FailedPingDefaults ==
    pc # "ping" /\ (ping_output.raised \/ ping_output.latencies = <<>>)
        => /\ ping = <<None, Some(100), None>>
           /\ error # "ping_test"

\* C6 witness: ping_test has returned from a ping that raised, and the
\* pass goes on.
C6_Witness ==
    /\ pc = "sys"
    /\ ping_output.raised
    /\ ping[2] = Some(100)

AllStages == <<"Collect", "Assemble", "Classify", "Categorize", "Publish">>

IsPrefix(s, t) == Len(s) <= Len(t) /\ \A i \in DOMAIN s : s[i] = t[i]

\* The number of stages of the pass that are behind the statement at p
StagesBefore(p) ==
    CASE p = "ping" -> 0
      [] p \in {"sys", "arduino", "wifi", "assemble"} -> 1
      [] p = "classify" -> 2
      [] p = "categorize" -> 3
      [] p = "publish" -> 4
      [] OTHER -> 5

C8_NoFieldAbsent ==
    /\ Assembled =>
          \A f \in Fields : f \in DOMAIN row /\ ~IsNone(row[f])
    /\ DOMAIN firebase_data # {} =>
          \A f \in Fields :
              f \in DOMAIN firebase_data /\ ~IsNone(firebase_data[f])

\* C8 witness: a row assembled from a ping without reply, no cpu_thermal
\* entry, no wifi reading and a sensor line with two of the nine keys.
C8_Witness ==
    /\ Assembled
    /\ IsNone(ping[1]) /\ IsNone(ping[3])
    /\ IsNone(sys_data["cpu_temp"])
    /\ IsNone(wifi_strength)
    /\ DOMAIN arduino_data = {"ambient_temp", "humidity"}
    /\ \A f \in Fields : ~IsNone(row[f])

\* C9: each assembled value is max(min_f, min(max_f, v)), v being the
\* measured value, or 0 for an absent field.
C9_ValueIsClippedDefault ==
    Assembled =>
        LET m == Merged IN
        \A f \in Fields :
            row[f] = Some(Clipped(f, IF IsNone(m[f]) THEN 0 ELSE Val(m[f])))

\* C10: an absent field is assembled to 0 exactly, whatever its clip range,
\* and a measured one to its value clipped: clipping acts on measured
\* values only.
C10_AbsentIsZeroUnclipped ==
    Assembled =>
        LET m == Merged IN
        \A f \in Fields :
            /\ IsNone(m[f]) => row[f] = Some(0)
            /\ ~IsNone(m[f]) => row[f] = Some(Clipped(f, Val(m[f])))

\* C10 witness: ambient_temp and cpu_temp were absent and are 0 in the
\* assembled row, below their ranges [15, 35] and [20, 90].
C10_Witness ==
    /\ Assembled
    /\ IsNone(Merged["ambient_temp"]) /\ IsNone(Merged["cpu_temp"])
    /\ row["ambient_temp"] = Some(0) /\ row["cpu_temp"] = Some(0)
    /\ ~WithinRange("ambient_temp", 0) /\ ~WithinRange("cpu_temp", 0)

--------------------------------------------------------------------------
\* Properties of the rule engine

\* The predicates of rules 1, 2 and 5 as the claims word them
ThermalPredicate(r) ==
    network_bad(r) /\ (num(r, "cpu_temp") > 65 \/ num(r, "cpu_load") > 6)

MotionInducedPredicate(r) == network_bad(r) /\ num(r, "motion_level") > 0

SystemLoadPredicate(r) == network_bad(r) /\ num(r, "cpu_load") > 8

\* C11: on every feature vector on which the Thermal predicate and the
\* Motion-Induced predicate both hold, categorize_anomaly answers Thermal,
\* and Thermal is the category of the row.
C11_ThermalBeforeMotion ==
    Assembled /\ ThermalPredicate(row) /\ MotionInducedPredicate(row)
        => /\ categorize_anomaly(df_row(row)) = "Thermal"
           /\ Categorized /\ is_anomaly = 1 => category = "Thermal"

\* C11 witness: a row flagged anomalous with motion and a hot or loaded
\* cpu on a bad network has been given the category Thermal.
C11_Witness ==
    /\ pc = "publish"
    /\ is_anomaly = 1
    /\ ThermalPredicate(row) /\ MotionInducedPredicate(row)
    /\ category = "Thermal"

--------------------------------------------------------------------------
\* Properties of the script as a process

\* C12: when the model, the scaler or the serial port cannot be had at
\* startup the process has ended before the loop: no stage of a pass was
\* gone through, no probe was sampled, nothing was handed to the sink; and
\* every statement of the loop runs with the model, the scaler and the
\* port in hand and no startup failure behind it.
C12_NoLoopAfterFailedStartup ==
    /\ error \in StartupErrors
          => /\ pc = "crashed"
             /\ stages = <<>>
             /\ NoLocals
             /\ handed = 0
             /\ sink = 0
    /\ pc \in LoopPcs
          => /\ {"model", "scaler", "ser"} \subseteq resources
             /\ error = ""

\* C12 witness: the scaler could not be loaded and the process has ended
\* with the model loaded, the port never opened and no pass begun.
C12_Witness ==
    /\ pc = "crashed"
    /\ error = "joblib.load"
    /\ resources = {"db", "model"}
    /\ stages = <<>>
    /\ sink = 0

\* The states in which the poll of the pass has been taken
PollTaken ==
    \/ pc \in {"wifi", "assemble", "classify", "categorize", "publish",
               "sleep"}
    \/ pc = "crashed" /\ error \in {"read_arduino_data", "add"}

\* A record is waiting and is not a well-formed, UTF-8, list of key:value
\* pairs
Malformed(poll) ==
    /\ ~poll.io_error
    /\ poll.in_waiting > 0
    /\ ~poll.decodable \/ parse_parts(poll.parts, EmptyDict).raised

\* C13: a poll that finds a malformed record gives the pass no sensor data
\* at all and raises nothing into the loop, and a poll that finds no record
\* waiting gives no data either.
C13_MalformedRecordDiscarded ==
    PollTaken /\ (Malformed(serial_poll) \/ serial_poll = NothingWaiting)
        => /\ arduino_data = EmptyDict
           /\ ~(pc = "crashed" /\ error = "read_arduino_data")

SensorFields ==
    {"ambient_temp", "humidity", "motion_level",
     "ax", "ay", "az", "gx", "gy", "gz"}

\* The value a field of the row has when this pass measured v for it
FromThisPass(f, v) == IF IsNone(v) THEN Some(0) ELSE Some(Clipped(f, Val(v)))

\* C14: the row of a pass, and the record published from it, hold for each
\* field what the probes of this pass gave for it, clipped, and 0 where
\* they gave nothing, whatever the pass before has left in the names of
\* the body.
C14_NoCarryOver ==
    Assembled
        => /\ \A f \in SensorFields :
                 row[f] = IF f \in DOMAIN arduino_data
                          THEN FromThisPass(f, arduino_data[f])
                          ELSE Some(0)
           /\ serial_poll = NothingWaiting
                 => \A f \in SensorFields : row[f] = Some(0)
           /\ \A f \in DOMAIN sys_data : row[f] = FromThisPass(f, sys_data[f])
           /\ row["ping_avg"] = FromThisPass("ping_avg", ping[1])
           /\ row["packet_loss"] = FromThisPass("packet_loss", ping[2])
           /\ row["ping_jitter"] = FromThisPass("ping_jitter", ping[3])
           /\ row["wifi_strength"] = FromThisPass("wifi_strength", wifi_strength)
           /\ ping_output.raised
                 => row["ping_avg"] = Some(0) /\ row["ping_jitter"] = Some(0)
           /\ pc = "sleep" \/ pc = "crashed"
                 => \A f \in Fields : firebase_data[f] = row[f]

\* C14 witness: the pass before published ambient_temp 25 and motion 3
\* (its record is still in firebase_data); in this pass nothing was waiting
\* on the serial port and the row has 0 for both.
C14_Witness ==
    /\ pc = "publish"
    /\ iter = 2
    /\ firebase_data["ambient_temp"] = Some(25)
    /\ firebase_data["motion_level"] = Some(3)
    /\ serial_poll = NothingWaiting
    /\ row["ambient_temp"] = Some(0)
    /\ row["motion_level"] = Some(0)

\* C15: a process stopped by a signal has left no pass half done (either
\* no stage of the pass was gone through, or all five) and holds the
\* serial port no more.
C15_StopsBetweenPasses ==
    pc = "stopped"
        => /\ stages = <<>> \/ stages = AllStages
           /\ "ser" \notin resources

\* C18: Classify leaves the row as Assemble made it, the category of a
\* flagged row is what categorize_anomaly answers on the clipped, unscaled
\* row, and the 17 feature values of the record are the values of that row.
C18_RulesSeeUnscaledRow ==
    /\ [][pc = "classify" => row' = row]_vars
    /\ [](Categorized
            => LET r == clip_features(Merged) IN
               /\ row = r
               /\ is_anomaly = 1 => category = categorize_anomaly(df_row(r)))
    /\ [](pc = "sleep" \/ (pc = "crashed" /\ error = "add")
            => \A f \in Fields : firebase_data[f] = row[f])

\* C18 witness: a pass measured a cpu at 70 degrees behind a ping of 150 ms,
\* the row was flagged, categorized Thermal on those values and published
\* with them.
C18_Witness ==
    /\ pc = "sleep"
    /\ is_anomaly = 1
    /\ sys_data["cpu_temp"] = Some(70)
    /\ ping[1] = Some(150)
    /\ row["cpu_temp"] = Some(70)
    /\ category = "Thermal"
    /\ firebase_data["cpu_temp"] = Some(70)
    /\ firebase_data["ping_avg"] = Some(150)

\* C19: categorize_anomaly answers System Load on no feature vector:
\* wherever the predicate of rule 5 holds, that of rule 1 holds and the
\* answer is Thermal; no row is given the category System Load.
C19_NeverSystemLoad ==
    /\ categorize_anomaly(df_row(row)) # "System Load"
    /\ SystemLoadPredicate(row)
          => /\ ThermalPredicate(row)
             /\ categorize_anomaly(df_row(row)) = "Thermal"
    /\ category # "System Load"

\* C19 witness: a flagged row with a cool cpu under load 9 on a bad
\* network, on which rule 5's predicate holds, has the category Thermal.
C19_Witness ==
    /\ pc = "publish"
    /\ is_anomaly = 1
    /\ SystemLoadPredicate(row)
    /\ num(row, "cpu_temp") <= 65
    /\ num(row, "motion_level") = 0
    /\ category = "Thermal"

\* C20: where categorize_anomaly answers Unknown Network Issue the network
\* is not bad (ping_avg <= 100, packet_loss <= 0.1, ping_jitter <= 30) and
\* jitter_ratio > 0.6; where it answers Thermal, Motion-Induced or Weak
\* Signal the network is bad.
C20_UnknownOnlyByJitterRatio ==
    LET answer == categorize_anomaly(df_row(row)) IN
    /\ answer = "Unknown Network Issue"
          => /\ ~network_bad(row)
             /\ num(row, "ping_avg") <= 100
             /\ 10 * num(row, "packet_loss") <= 1
             /\ num(row, "ping_jitter") <= 30
             /\ jitter_ratio_gt(row, 6)
    /\ answer \in {"Thermal", "Motion-Induced", "Weak Signal"}
          => network_bad(row)
    /\ Categorized /\ is_anomaly = 1 => category = answer

\* C20 witness: a flagged row with ping_avg 2 and ping_jitter 30 on a
\* network that is not bad has the category Unknown Network Issue.
C20_Witness ==
    /\ pc = "publish"
    /\ is_anomaly = 1
    /\ num(row, "ping_avg") = 2
    /\ num(row, "ping_jitter") = 30
    /\ ~network_bad(row)
    /\ category = "Unknown Network Issue"

--------------------------------------------------------------------------
\* Properties of the serial bridge

--------------------------------------------------------------------------
\* Properties of the health dashboard

\* The deductions of the thresholds a set of metrics violates
Deductions(c) ==
    { <<"ping", 20>> : x \in IF c.ping_ms > 100 THEN {1} ELSE {} }
    \cup { <<"jitter", 15>> : x \in IF c.jitter_ms > 10 THEN {1} ELSE {} }
    \cup { <<"download", 25>> : x \in IF c.download_mbps < 10 THEN {1} ELSE {} }
    \cup { <<"upload", 20>> : x \in IF c.upload_mbps < 5 THEN {1} ELSE {} }
    \cup { <<"loss", 30>> : x \in IF c.packet_loss_percent > 1 THEN {1} ELSE {} }
    \cup { <<"rssi", 15>> : x \in IF c.wifi_rssi_dbm < -70 THEN {1} ELSE {} }
    \cup { <<"temperature", 10>> : x \in IF c.temperature_c > 70 THEN {1} ELSE {} }

RECURSIVE Total(_)
Total(ds) ==
    IF ds = {} THEN 0
    ELSE LET d == CHOOSE x \in ds : TRUE IN d[2] + Total(ds \ {d})

ExpectedScore(c) ==
    LET s == 100 - Total(Deductions(c)) IN IF s < 0 THEN 0 ELSE s

ExpectedStatus(score) ==
    CASE score >= 90 -> "excellent"
      [] score >= 70 /\ score < 90 -> "good"
      [] score >= 50 /\ score < 70 -> "fair"
      [] OTHER -> "poor"

\* The score and the status the tool computes before it builds its reply
DashboardComputed ==
    current # EmptyDict
        => /\ health_score = ExpectedScore(current)
           /\ health_score \in 0..100
           /\ status = ExpectedStatus(health_score)

\* C25: the reply of get_network_health_dashboard carries, for every
\* combination of metric values, the health score max(0, 100 - the
\* deductions of the thresholds violated), within 0..100, and the status
\* that goes with that score.
C25_ScoreReturned ==
    tool_reply.kind # "none"
        => /\ tool_reply.kind = "text"
           /\ tool_reply.health_score = ExpectedScore(current)
           /\ tool_reply.health_score \in 0..100
           /\ tool_reply.status = ExpectedStatus(tool_reply.health_score)

--------------------------------------------------------------------------
\* Properties of the AI request processing

\* The number of documents of ai_responses with a given request_id
Responses(r) == ai_responses[r].success + ai_responses[r].failure

\* C21: under every interleaving of the watch thread and the tool, each
\* request is given to process_ai_request at most once and has at most one
\* document in ai_responses.
C21_ProcessedAtMostOnce ==
    \A r \in Requests : runs[r] <= 1 /\ Responses(r) <= 1

\* C22: a request becomes completed only in a call of process_ai_request
\* that has added a success document with its request_id, and failed only
\* in one that has added an error document with it; no call has marked a
\* request completed and written an error document.
C22_StatusFollowsResponse ==
    /\ [][\A r \in Requests :
            ai_requests'[r].status # ai_requests[r].status
            /\ ai_requests'[r].status \in {"completed", "failed"}
            => \E t \in Threads :
                  /\ run[t].request = r
                  /\ run'[t].set = ai_requests'[r].status
                  /\ run[t].wrote =
                        IF ai_requests'[r].status = "completed"
                        THEN {"success"} ELSE {"failure"}
                  /\ IF ai_requests'[r].status = "completed"
                     THEN ai_responses[r].success >= 1
                     ELSE ai_responses[r].failure >= 1]_vars
    /\ [](\A r \in Requests :
            /\ ai_requests[r].status = "completed"
                  => ai_responses[r].success >= 1
            /\ ai_requests[r].status = "failed"
                  => ai_responses[r].failure >= 1)
    /\ [](\A t \in Threads :
            /\ run[t].set = "completed" => run[t].wrote = {"success"}
            /\ run[t].set = "failed" => run[t].wrote = {"failure"}
            /\ Cardinality(run[t].wrote) <= 1)

\* C22 witness: the watch thread has completed r1 after a success document
\* and the tool has failed r2 after an error document.
C22_Witness ==
    /\ ai_requests["r1"].status = "completed"
    /\ run["watcher"] = [request |-> "r1", called |-> TRUE,
                         wrote |-> {"success"}, set |-> "completed"]
    /\ ai_responses["r1"] = [success |-> 1, failure |-> 0]
    /\ ai_requests["r2"].status = "failed"
    /\ run["tool"].request = "r2"
    /\ run["tool"].wrote = {"failure"}
    /\ run["tool"].set = "failed"
    /\ wpc = [t \in Threads |-> "idle"]

\* A time gone by, however the client wrote it
InThePast(e) == e \in {"past", "past_text"}

\* C23: a call of process_ai_request on a request whose expires_at lies in
\* the past ends with the status of the request set to expired, without a
\* call of the chat-completion backend and without a document written to
\* ai_responses.
C23_ExpiredIsOnlyMarked ==
    \A t \in Threads :
        /\ run[t].request # ""
        /\ InThePast(ai_requests[run[t].request].expires_at)
        => /\ ~run[t].called
           /\ run[t].wrote = {}
           /\ wpc[t] = "idle"
                 => /\ run[t].set = "expired"
                    /\ ai_requests[run[t].request].status = "expired"

==========================================================================
